---- MODULE Spec2Model ----
(***************************************************************************)
(* Fixed-capacity hash tables of src/lib/hashtables.ts: the chaining table *)
(* and the linear-probing table with tombstones; and their client, the     *)
(* family index of person_table.ts (toHashtable, descendants).             *)
(*                                                                         *)
(* Encoding of the JavaScript values:                                      *)
(*   keys are the numbers 0..MaxKey, values the numbers 1 and 2;           *)
(*   undefined is Undefined (-1) and null is Null (-2), both outside the   *)
(*   key and the value range; an array of length n is a function on        *)
(*   0..n-1; a list (lib/list) is a sequence, a pair <<head, tail>>.       *)
(***************************************************************************)
EXTENDS Integers, Sequences, FiniteSets

\* Keys are 0..MaxKey; a table has at most MaxCap slots or chains.
MaxKey == 2
MaxCap == 3

Undefined == 0 - 1
Null == 0 - 2

Keys == 0..MaxKey
\* Two values tell an overwritten value from the old one; no operation
\* inspects a value.
Vals == {1, 2}

\* variant: which table the client created; ht, ct: the probing and the
\* chaining table; last: the last call with its arguments and its result;
\* pre: the table as it was when the last call was entered.
VARIABLES variant, ht, ct, last, pre

\* The family index of person_table.ts (variant "family"; its table is ht).
\* people, relations: how many pairs of the two argument lists toHashtable has
\* still to read; inPeople, inRelations: the ids and the (parent, child) pairs
\* read so far; heap: the Person objects, a value of ht being a reference, an
\* element of the domain of heap;
\* tpc, dpc: the position of toHashtable and of descendants; query: the id
\* descendants was called with; stack, result: its two arrays; tick: the
\* parity of the number of iterations of its loop.
VARIABLES people, relations, inPeople, inRelations, heap, tpc, dpc, query, stack, result, tick
famVars == <<people, relations, inPeople, inRelations, heap, tpc, dpc, query, stack, result, tick>>
vars == <<variant, ht, ct, last, pre, famVars>>

\* The remainder operator of JavaScript: the sign follows the dividend.
JSRem(a, b) == IF a >= 0 THEN a % b ELSE 0 - ((0 - a) % b)

\* hash_id, and the other hash functions a client may supply: k |-> a*k + b.
\* A probing table is given hash values >= 0: hash_id, hash_id shifted by one
\* and the constant functions 0 and 1, under which all keys collide.
\* A chaining table is also given negative hash values: hash_id and k |-> k - 1.
hash_id == [k \in Keys |-> k]
HashFunction(a, b) == [k \in Keys |-> a * k + b]
ProbingHashes == {HashFunction(a, b) : a \in {0, 1}, b \in {0, 1}}
ChainingHashes == {hash_id, HashFunction(1, 0 - 1)}

Length(arr) == Cardinality(DOMAIN arr)

(***************************************************************************)
(* Probing hash table                                                      *)
(***************************************************************************)
ph_empty(size, hash_function) ==
    [keys |-> [i \in 0..(size - 1) |-> Undefined],
     values |-> [i \in 0..(size - 1) |-> Undefined],
     hash |-> hash_function,
     entries |-> 0]

\* The probe loop with an off-by-one bound: it inspects one slot too few.
RECURSIVE probeLoop_short(_, _, _, _, _)
probeLoop_short(keys, key, hash, skip_null, i) ==
    IF i < Length(keys) - 1
    THEN LET idx == JSRem(hash + i, Length(keys))
         IN  IF keys[idx] = key THEN idx
             ELSE IF keys[idx] = Undefined THEN idx
             ELSE IF ~skip_null /\ keys[idx] = Null THEN idx
             ELSE probeLoop_short(keys, key, hash, skip_null, i + 1)
    ELSE Undefined

RECURSIVE probeLoop(_, _, _, _, _)
probeLoop(keys, key, hash, skip_null, i) ==
    IF i < Length(keys)
    THEN LET idx == JSRem(hash + i, Length(keys))
         IN  IF keys[idx] = key THEN idx
             ELSE IF keys[idx] = Undefined THEN idx
             ELSE IF ~skip_null /\ keys[idx] = Null THEN idx
             ELSE probeLoop(keys, key, hash, skip_null, i + 1)
    ELSE Undefined

\* The loop of probe run one iteration too far.
RECURSIVE probeCount_long(_, _, _, _, _)
probeCount_long(keys, key, hash, skip_null, i) ==
    IF i <= Length(keys) /\ Length(keys) > 0
    THEN LET idx == JSRem(hash + i, Length(keys))
         IN  IF keys[idx] = key THEN 1
             ELSE IF keys[idx] = Undefined THEN 1
             ELSE IF ~skip_null /\ keys[idx] = Null THEN 1
             ELSE 1 + probeCount_long(keys, key, hash, skip_null, i + 1)
    ELSE 0

\* The number of slots the loop of probe inspects from iteration i on.
RECURSIVE probeCount(_, _, _, _, _)
probeCount(keys, key, hash, skip_null, i) ==
    IF i < Length(keys)
    THEN LET idx == JSRem(hash + i, Length(keys))
         IN  IF keys[idx] = key THEN 1
             ELSE IF keys[idx] = Undefined THEN 1
             ELSE IF ~skip_null /\ keys[idx] = Null THEN 1
             ELSE 1 + probeCount(keys, key, hash, skip_null, i + 1)
    ELSE 0

\* probe that stops at a tombstone whatever skip_null says.
probe_stop(keys, key, hash, skip_null) == probeLoop(keys, key, hash, FALSE, 0)

probe(keys, key, hash, skip_null) == probeLoop(keys, key, hash, skip_null, 0)

\* ph_lookup whose probe stops at tombstones.
ph_lookup_stop(t, key) ==
    LET start_idx == t.hash[key]
        idx == probe(t.keys, key, start_idx, FALSE)
    IN  IF idx = Undefined THEN Undefined ELSE t.values[idx]

ph_lookup(t, key) ==
    LET start_idx == t.hash[key]
        idx == probe(t.keys, key, start_idx, TRUE)
    IN  IF idx = Undefined THEN Undefined ELSE t.values[idx]

\* ph_insert without the confirmation re-probe: it writes where the first probe stopped.
ph_insert_idx_first(t, key, idx) == idx

\* The index ph_insert settles on after the confirmation re-probe.
ph_insert_idx(t, key, idx) ==
    IF t.keys[idx] = Null
    THEN LET key_idx == probe(t.keys, key, idx, TRUE)
         IN  IF key_idx # Undefined THEN key_idx ELSE idx
    ELSE idx

\* ph_insert that tests the capacity before it tests whether the key is stored.
ph_insert_strict(t, key, value) ==
    LET start_idx == t.hash[key]
        first == probe(t.keys, key, start_idx, FALSE)
    IN  IF first = Undefined
        THEN [ht |-> t, ret |-> FALSE]
        ELSE LET idx == ph_insert_idx(t, key, first)
             IN  IF t.entries = Length(t.keys)
                 THEN [ht |-> t, ret |-> FALSE]
                 ELSE [ht |-> [t EXCEPT !.entries = IF t.keys[idx] # key THEN @ + 1 ELSE @,
                                        !.keys[idx] = key,
                                        !.values[idx] = value],
                       ret |-> TRUE]

\* ph_insert: the table after the call and the returned boolean.
ph_insert(t, key, value) ==
    LET start_idx == t.hash[key]
        first == probe(t.keys, key, start_idx, FALSE)
    IN  IF first = Undefined
        THEN [ht |-> t, ret |-> FALSE]
        ELSE LET idx == ph_insert_idx(t, key, first)
             IN  IF t.keys[idx] # key /\ t.entries = Length(t.keys)
                 THEN [ht |-> t, ret |-> FALSE]
                 ELSE [ht |-> [t EXCEPT !.entries = IF t.keys[idx] # key THEN @ + 1 ELSE @,
                                        !.keys[idx] = key,
                                        !.values[idx] = value],
                       ret |-> TRUE]

\* The slots ph_lookup and ph_delete inspect: one probe that skips tombstones.
ph_lookup_inspected(t, key) == probeCount(t.keys, key, t.hash[key], TRUE, 0)

\* The slots ph_insert inspects: the first probe, and the confirmation
\* re-probe when the first probe stopped at a tombstone.
ph_insert_inspected(t, key) ==
    LET start_idx == t.hash[key]
        first == probe(t.keys, key, start_idx, FALSE)
    IN  probeCount(t.keys, key, start_idx, FALSE, 0)
          + (IF first # Undefined /\ t.keys[first] = Null
             THEN probeCount(t.keys, key, first, TRUE, 0)
             ELSE 0)

\* ph_delete that marks the slot as never used instead of leaving a tombstone.
ph_delete_empty(t, key) ==
    LET start_idx == t.hash[key]
        idx == probe(t.keys, key, start_idx, TRUE)
    IN  IF idx = Undefined \/ t.keys[idx] = Undefined
        THEN [ht |-> t, ret |-> Undefined]
        ELSE [ht |-> [t EXCEPT !.entries = @ - 1,
                               !.keys[idx] = Undefined,
                               !.values[idx] = Undefined],
              ret |-> t.values[idx]]

\* ph_delete that forgets to count the entry down.
ph_delete_nocount(t, key) ==
    LET start_idx == t.hash[key]
        idx == probe(t.keys, key, start_idx, TRUE)
    IN  IF idx = Undefined \/ t.keys[idx] = Undefined
        THEN [ht |-> t, ret |-> Undefined]
        ELSE [ht |-> [t EXCEPT !.keys[idx] = Null,
                               !.values[idx] = Undefined],
              ret |-> t.values[idx]]

\* ph_delete that does not test whether the probe stopped at an unused slot.
ph_delete_noempty(t, key) ==
    LET start_idx == t.hash[key]
        idx == probe(t.keys, key, start_idx, TRUE)
    IN  IF idx = Undefined
        THEN [ht |-> t, ret |-> Undefined]
        ELSE [ht |-> [t EXCEPT !.entries = @ - 1,
                               !.keys[idx] = Null,
                               !.values[idx] = Undefined],
              ret |-> t.values[idx]]

\* ph_delete whose probe stops at tombstones.
ph_delete_stop(t, key) ==
    LET start_idx == t.hash[key]
        idx == probe(t.keys, key, start_idx, FALSE)
    IN  IF idx = Undefined \/ t.keys[idx] = Undefined
        THEN [ht |-> t, ret |-> Undefined]
        ELSE [ht |-> [t EXCEPT !.entries = @ - 1,
                               !.keys[idx] = Null,
                               !.values[idx] = Undefined],
              ret |-> t.values[idx]]

\* ph_delete that counts the entry down before it knows that the key is stored.
ph_delete_eager(t, key) ==
    LET start_idx == t.hash[key]
        idx == probe(t.keys, key, start_idx, TRUE)
    IN  IF idx = Undefined \/ t.keys[idx] = Undefined
        THEN [ht |-> [t EXCEPT !.entries = @ - 1], ret |-> Undefined]
        ELSE [ht |-> [t EXCEPT !.entries = @ - 1,
                               !.keys[idx] = Null,
                               !.values[idx] = Undefined],
              ret |-> t.values[idx]]

\* ph_delete: the table after the call and the returned value.
ph_delete(t, key) ==
    LET start_idx == t.hash[key]
        idx == probe(t.keys, key, start_idx, TRUE)
    IN  IF idx = Undefined \/ t.keys[idx] = Undefined
        THEN [ht |-> t, ret |-> Undefined]
        ELSE [ht |-> [t EXCEPT !.entries = @ - 1,
                               !.keys[idx] = Null,
                               !.values[idx] = Undefined],
              ret |-> t.values[idx]]

\* filterNulls that drops undefined only.
RECURSIVE filterNulls_undefined(_)
filterNulls_undefined(xs) ==
    IF xs = <<>> THEN <<>>
    ELSE LET x == Head(xs)
         IN  IF x = Undefined
             THEN filterNulls_undefined(Tail(xs))
             ELSE <<x>> \o filterNulls_undefined(Tail(xs))

RECURSIVE filterNulls(_)
filterNulls(xs) ==
    IF xs = <<>> THEN <<>>
    ELSE LET x == Head(xs)
         IN  IF x = Undefined \/ x = Null
             THEN filterNulls(Tail(xs))
             ELSE <<x>> \o filterNulls(Tail(xs))

\* build_list(fun, n) of lib/list: the list fun(0), ..., fun(n - 1).
build_list(fun, n) == [i \in 1..n |-> fun[i - 1]]

ph_keys(tab) == filterNulls(build_list(tab.keys, Length(tab.keys)))

(***************************************************************************)
(* Chaining hash table                                                     *)
(***************************************************************************)
ch_empty(size, hash) ==
    [arr |-> [i \in 0..(size - 1) |-> <<>>], hash |-> hash]

\* scan that looks at the first pair of the list only.
scan_first(xs, key) ==
    IF xs = <<>> THEN Undefined
    ELSE IF key = Head(xs)[1] THEN Head(xs)[2]
    ELSE Undefined

RECURSIVE scan(_, _)
scan(xs, key) ==
    IF xs = <<>> THEN Undefined
    ELSE IF key = Head(xs)[1] THEN Head(xs)[2]
    ELSE scan(Tail(xs), key)

\* mod that takes the absolute value of the number to get into range.
mod_abs(nmb, modulus) == JSRem(IF nmb < 0 THEN 0 - nmb ELSE nmb, modulus)

\* Compute a remainder that has the same sign as the modulus.
mod(nmb, modulus) == JSRem(JSRem(nmb, modulus) + modulus, modulus)

ch_lookup(t, key) == scan(t.arr[mod(t.hash[key], Length(t.arr))], key)

\* ch_insert that puts a new pair at the end of the chain.
ch_insert_append(t, key, value) ==
    LET index == mod(t.hash[key], Length(t.arr))
    IN  IF scan(t.arr[index], key) = Undefined
        THEN [ct |-> [t EXCEPT !.arr[index] = @ \o <<(<<key, value>>)>>], ret |-> FALSE]
        ELSE [ct |-> [t EXCEPT !.arr[index] =
                        [i \in 1..Len(@) |-> IF key = @[i][1] THEN <<key, value>> ELSE @[i]]],
              ret |-> TRUE]

\* ch_insert that always puts a new pair in front of the chain.
ch_insert_prepend(t, key, value) ==
    LET index == mod(t.hash[key], Length(t.arr))
    IN  [ct |-> [t EXCEPT !.arr[index] = <<(<<key, value>>)>> \o @],
         ret |-> scan(t.arr[index], key) # Undefined]

\* ch_insert: the table after the call and the returned boolean.
ch_insert(t, key, value) ==
    LET index == mod(t.hash[key], Length(t.arr))
    IN  IF scan(t.arr[index], key) = Undefined
        THEN [ct |-> [t EXCEPT !.arr[index] = <<(<<key, value>>)>> \o @], ret |-> FALSE]
        ELSE [ct |-> [t EXCEPT !.arr[index] =
                        [i \in 1..Len(@) |-> IF key = @[i][1] THEN <<key, value>> ELSE @[i]]],
              ret |-> TRUE]

ch_delete_keep(kv, key) == kv[1] # key

\* ch_delete: the table after the call and the returned boolean.
ch_delete(t, key) ==
    LET index == mod(t.hash[key], Length(t.arr))
        keep(kv) == ch_delete_keep(kv, key)
    IN  IF scan(t.arr[index], key) = Undefined
        THEN [ct |-> t, ret |-> FALSE]
        ELSE [ct |-> [t EXCEPT !.arr[index] = SelectSeq(@, keep)], ret |-> TRUE]

\* flatten(xss) of lib/list: the concatenation of the lists of a list.
RECURSIVE flatten(_)
flatten(xss) == IF xss = <<>> THEN <<>> ELSE Head(xss) \o flatten(Tail(xss))

ch_keys(tab) ==
    LET all == flatten(build_list(tab.arr, Length(tab.arr)))
    IN  [i \in 1..Len(all) |-> all[i][1]]

(***************************************************************************)
(* The calls of a client                                                   *)
(***************************************************************************)
Call(name, key, val, ret) == [name |-> name, key |-> key, val |-> val, ret |-> ret]

NoTable == [none |-> TRUE]

\* A client of the tables alone builds no family index.
NoFamily ==
    /\ people = 0 /\ relations = 0
    /\ inPeople = {} /\ inRelations = {}
    /\ heap = <<>>
    /\ tpc = "none" /\ dpc = "none"
    /\ query = Undefined
    /\ stack = <<>> /\ result = <<>>
    /\ tick = 0

\* A client creates one table variant with a fixed capacity and a hash function.
InitProbing ==
    /\ variant = "ph"
    /\ \E size \in 0..MaxCap, h \in ProbingHashes : ht = ph_empty(size, h)
    /\ ct = NoTable
    /\ last = Call("ph_empty", Undefined, Undefined, Undefined)
    /\ pre = ht
    /\ NoFamily

InitChaining ==
    /\ variant = "ch"
    /\ \E size \in 1..MaxCap, h \in ChainingHashes : ct = ch_empty(size, h)
    /\ ht = NoTable
    /\ last = Call("ch_empty", Undefined, Undefined, Undefined)
    /\ pre = ct
    /\ NoFamily

Init == InitProbing \/ InitChaining

PhInsert ==
    /\ variant = "ph"
    /\ pre' = ht
    /\ \E key \in Keys, value \in Vals :
        LET r == ph_insert(ht, key, value)
        IN  /\ ht' = r.ht
            /\ last' = Call("ph_insert", key, value, r.ret)
    /\ UNCHANGED <<variant, ct, famVars>>

PhDelete ==
    /\ variant = "ph"
    /\ pre' = ht
    /\ \E key \in Keys :
        LET r == ph_delete(ht, key)
        IN  /\ ht' = r.ht
            /\ last' = Call("ph_delete", key, Undefined, r.ret)
    /\ UNCHANGED <<variant, ct, famVars>>

PhLookup ==
    /\ variant = "ph"
    /\ pre' = ht
    /\ \E key \in Keys :
        last' = Call("ph_lookup", key, Undefined, ph_lookup(ht, key))
    /\ UNCHANGED <<variant, ht, ct, famVars>>

PhKeys ==
    /\ variant = "ph"
    /\ pre' = ht
    /\ last' = Call("ph_keys", Undefined, Undefined, ph_keys(ht))
    /\ UNCHANGED <<variant, ht, ct, famVars>>

ChInsert ==
    /\ variant = "ch"
    /\ pre' = ct
    /\ \E key \in Keys, value \in Vals :
        LET r == ch_insert(ct, key, value)
        IN  /\ ct' = r.ct
            /\ last' = Call("ch_insert", key, value, r.ret)
    /\ UNCHANGED <<variant, ht, famVars>>

ChDelete ==
    /\ variant = "ch"
    /\ pre' = ct
    /\ \E key \in Keys :
        LET r == ch_delete(ct, key)
        IN  /\ ct' = r.ct
            /\ last' = Call("ch_delete", key, Undefined, r.ret)
    /\ UNCHANGED <<variant, ht, famVars>>

ChLookup ==
    /\ variant = "ch"
    /\ pre' = ct
    /\ \E key \in Keys :
        last' = Call("ch_lookup", key, Undefined, ch_lookup(ct, key))
    /\ UNCHANGED <<variant, ht, ct, famVars>>

ChKeys ==
    /\ variant = "ch"
    /\ pre' = ct
    /\ last' = Call("ch_keys", Undefined, Undefined, ch_keys(ct))
    /\ UNCHANGED <<variant, ht, ct, famVars>>

Next ==
    \/ PhInsert \/ PhDelete \/ PhLookup \/ PhKeys
    \/ ChInsert \/ ChDelete \/ ChLookup \/ ChKeys

Spec == Init /\ [][Next]_vars

(***************************************************************************)
(* The family index: toHashtable and descendants                           *)
(***************************************************************************)
\* The people list has at most MaxPeople pairs and the relations list at most
\* MaxRel. A run of descendants whose stack outgrows MaxStack is left aside:
\* without a cycle, the stack holds at most one entry per relation.
MaxPeople == MaxCap
MaxRel == 3
MaxStack == MaxRel

\* One name for all: neither toHashtable nor descendants reads a name.
Names == {"a"}

includes(arr, x) == \E i \in 1..Len(arr) : arr[i] = x

Person(id, name) == [id |-> id, name |-> name, parents |-> <<>>, children |-> <<>>]

\* The reference of a new object, one that no object of the heap has: id + 1
\* for the first object made for id, and a number beyond those for another.
NewRef(h, id) ==
    IF id + 1 \notin DOMAIN h THEN id + 1 ELSE MaxKey + 2 + Cardinality(DOMAIN h)

\* One iteration of the loop over people: the record is created and inserted
\* unless the id is found. ret is the result of the ph_insert that was issued.
toHashtable_person(t, h, id, name) ==
    IF ph_lookup(t, id) = Undefined
    THEN LET ref == NewRef(h, id)
             r == ph_insert(t, id, ref)
         IN  [ht |-> r.ht,
              heap |-> [x \in DOMAIN h \cup {ref} |-> IF x = ref THEN Person(id, name) ELSE h[x]],
              issued |-> TRUE, ref |-> ref, ret |-> r.ret]
    ELSE [ht |-> t, heap |-> h, issued |-> FALSE, ref |-> Undefined, ret |-> Undefined]

\* The body of the relations loop that pushes without asking includes first.
toHashtable_link_push(t, h, parentId, childId) ==
    LET parent == ph_lookup(t, parentId)
        child == ph_lookup(t, childId)
    IN  IF parent # Undefined /\ child # Undefined
        THEN LET h1 == [h EXCEPT ![parent].children = Append(@, childId)]
             IN  [h1 EXCEPT ![child].parents = Append(@, parentId)]
        ELSE h

\* One iteration of the loop over relations. parent and child may be the same
\* object: the second update reads the heap the first one wrote.
toHashtable_link(t, h, parentId, childId) ==
    LET parent == ph_lookup(t, parentId)
        child == ph_lookup(t, childId)
    IN  IF parent # Undefined /\ child # Undefined
        THEN LET h1 == IF ~includes(h[parent].children, childId)
                       THEN [h EXCEPT ![parent].children = Append(@, childId)]
                       ELSE h
             IN  IF ~includes(h1[child].parents, parentId)
                 THEN [h1 EXCEPT ![child].parents = Append(@, parentId)]
                 ELSE h1
        ELSE h

\* One iteration of the loop of descendants, on a stack that is not empty.
descendants_step(t, h, stk, res) ==
    LET current == stk[Len(stk)]
        rest == SubSeq(stk, 1, Len(stk) - 1)
    IN  IF current # Undefined
        THEN LET child == ph_lookup(t, current)
             IN  [stack |-> IF child # Undefined THEN rest \o h[child].children ELSE rest,
                  result |-> IF ~includes(res, current) THEN Append(res, current) ELSE res]
        ELSE [stack |-> rest, result |-> res]

\* toHashtable is called with a people list of n pairs and a relations list of
\* m pairs; relations mention only ids of people, so m = 0 if n = 0.
InitFamily ==
    /\ variant = "family"
    /\ \E n \in 0..MaxPeople, m \in 0..MaxRel :
        /\ n = 0 => m = 0
        /\ people = n
        /\ relations = m
        /\ ht = ph_empty(n, hash_id)
    /\ ct = NoTable
    /\ last = Call("ph_empty", Undefined, Undefined, Undefined)
    /\ pre = ht
    /\ inPeople = {} /\ inRelations = {}
    /\ heap = <<>>
    /\ tpc = "people" /\ dpc = "idle"
    /\ query = Undefined
    /\ stack = <<>> /\ result = <<>>
    /\ tick = 0

\* The next pair of people, with any id and any name.
ToHashtablePerson ==
    /\ variant = "family" /\ tpc = "people" /\ people > 0
    /\ \E id \in Keys, name \in Names :
        LET r == toHashtable_person(ht, heap, id, name)
        IN  /\ ht' = r.ht
            /\ heap' = r.heap
            /\ IF r.issued
               THEN last' = Call("ph_insert", id, r.ref, r.ret) /\ pre' = ht
               ELSE UNCHANGED <<last, pre>>
            /\ inPeople' = inPeople \cup {id}
    /\ people' = people - 1
    /\ UNCHANGED <<variant, ct, relations, inRelations, tpc, dpc, query, stack, result, tick>>

ToHashtablePeopleDone ==
    /\ variant = "family" /\ tpc = "people" /\ people = 0
    /\ tpc' = "relations"
    /\ UNCHANGED <<variant, ht, ct, last, pre, people, relations, inPeople, inRelations,
                   heap, dpc, query, stack, result, tick>>

\* The next pair of relations, between any two ids of the people list.
ToHashtableRelation ==
    /\ variant = "family" /\ tpc = "relations" /\ relations > 0
    /\ \E parentId \in inPeople, childId \in inPeople :
        /\ heap' = toHashtable_link(ht, heap, parentId, childId)
        /\ inRelations' = inRelations \cup {<<parentId, childId>>}
    /\ relations' = relations - 1
    /\ UNCHANGED <<variant, ht, ct, last, pre, people, inPeople, tpc, dpc, query, stack, result, tick>>

ToHashtableReturn ==
    /\ variant = "family" /\ tpc = "relations" /\ relations = 0
    /\ tpc' = "built"
    /\ UNCHANGED <<variant, ht, ct, last, pre, people, relations, inPeople, inRelations,
                   heap, dpc, query, stack, result, tick>>

\* descendants(ht, id) up to its loop, for any id.
DescendantsCall ==
    /\ variant = "family" /\ tpc = "built" /\ dpc = "idle"
    /\ \E id \in Keys :
        LET ancestor == ph_lookup(ht, id)
        IN  /\ query' = id
            /\ IF ancestor = Undefined
               THEN dpc' = "undefined" /\ stack' = <<>>
               ELSE dpc' = "loop" /\ stack' = heap[ancestor].children
    /\ result' = <<>>
    /\ UNCHANGED <<variant, ht, ct, last, pre, people, relations, inPeople, inRelations,
                   heap, tpc, tick>>

DescendantsStep ==
    /\ variant = "family" /\ dpc = "loop" /\ Len(stack) > 0
    /\ LET r == descendants_step(ht, heap, stack, result)
       IN  IF Len(r.stack) > MaxStack
           THEN dpc' = "overflow" /\ stack' = <<>> /\ result' = <<>>
           ELSE dpc' = dpc /\ stack' = r.stack /\ result' = r.result
    /\ tick' = 1 - tick
    /\ UNCHANGED <<variant, ht, ct, last, pre, people, relations, inPeople, inRelations,
                   heap, tpc, query>>

DescendantsReturn ==
    /\ variant = "family" /\ dpc = "loop" /\ Len(stack) = 0
    /\ dpc' = "array"
    /\ UNCHANGED <<variant, ht, ct, last, pre, people, relations, inPeople, inRelations,
                   heap, tpc, query, stack, result, tick>>

NextFamily ==
    \/ ToHashtablePerson \/ ToHashtablePeopleDone
    \/ ToHashtableRelation \/ ToHashtableReturn
    \/ DescendantsCall \/ DescendantsStep \/ DescendantsReturn

SpecFamily == InitFamily /\ [][NextFamily]_vars

\* A call of descendants keeps running: its loop goes on while the stack is
\* not empty, and it returns once the stack is empty.
SpecFamilyFair == SpecFamily /\ WF_vars(DescendantsStep) /\ WF_vars(DescendantsReturn)

(***************************************************************************)
(* A chaining and a probing table side by side                             *)
(***************************************************************************)
\* A client creates both tables with the same capacity >= 1 and the same hash
\* function with values >= 0, and issues every call on both (variant "both").
\* last holds the name of the call issued last and the results of both tables,
\* without its arguments; pre stays the two empty tables.
Both(ph, ch) == [ph |-> ph, ch |-> ch]

\* The hash functions given to both: hash_id, and the constant 0, under which
\* all keys collide.
BothHashes == {hash_id, HashFunction(0, 0)}

InitBoth ==
    /\ variant = "both"
    /\ \E size \in 1..MaxCap, h \in BothHashes :
        /\ ht = ph_empty(size, h)
        /\ ct = ch_empty(size, h)
    /\ last = Call("empty", Undefined, Undefined, Both(Undefined, Undefined))
    /\ pre = Both(ht, ct)
    /\ NoFamily

\* The client inserts a key while the number of present keys stays within the
\* capacity: a key that is present, or a new key into a table that is not full.
BothInsert ==
    /\ variant = "both"
    /\ \E key \in Keys, value \in Vals :
        /\ ch_lookup(ct, key) # Undefined \/ Len(ch_keys(ct)) < Length(ct.arr)
        /\ LET p == ph_insert(ht, key, value)
               c == ch_insert(ct, key, value)
           IN  /\ ht' = p.ht
               /\ ct' = c.ct
               /\ last' = Call("insert", Undefined, Undefined, Both(p.ret, c.ret))
    /\ UNCHANGED <<variant, pre, famVars>>

BothDelete ==
    /\ variant = "both"
    /\ \E key \in Keys :
        LET p == ph_delete(ht, key)
            c == ch_delete(ct, key)
        IN  /\ ht' = p.ht
            /\ ct' = c.ct
            /\ last' = Call("delete", Undefined, Undefined, Both(p.ret, c.ret))
    /\ UNCHANGED <<variant, pre, famVars>>

BothLookup ==
    /\ variant = "both"
    /\ \E key \in Keys :
        last' = Call("lookup", Undefined, Undefined, Both(ph_lookup(ht, key), ch_lookup(ct, key)))
    /\ UNCHANGED <<variant, ht, ct, pre, famVars>>

BothKeys ==
    /\ variant = "both"
    /\ last' = Call("keys", Undefined, Undefined, Both(ph_keys(ht), ch_keys(ct)))
    /\ UNCHANGED <<variant, ht, ct, pre, famVars>>

NextBoth == BothInsert \/ BothDelete \/ BothLookup \/ BothKeys

SpecBoth == InitBoth /\ [][NextBoth]_vars

(***************************************************************************)
(* Properties                                                              *)
(***************************************************************************)
IsKey(x) == x # Undefined /\ x # Null
OccupiedSlots(t) == {i \in DOMAIN t.keys : IsKey(t.keys[i])}
TombstoneSlots(t) == {i \in DOMAIN t.keys : t.keys[i] = Null}
EmptySlots(t) == {i \in DOMAIN t.keys : t.keys[i] = Undefined}
PhPresent(t, k) == \E i \in DOMAIN t.keys : t.keys[i] = k
ChPresent(t, k) == \E i \in DOMAIN t.arr : \E j \in 1..Len(t.arr[i]) : t.arr[i][j][1] = k
Range(xs) == {xs[i] : i \in 1..Len(xs)}

\* C1: in a probing table, entries equals the number of slots of keys that
\* hold a key (neither undefined nor null), after any calls of ph_insert and
\* ph_delete.
C1_EntriesCountsOccupied ==
    variant = "ph" => ht.entries = Cardinality(OccupiedSlots(ht))

\* A table with a stored key, a tombstone and an insert that has just succeeded.
C1_Witness ==
    /\ variant = "ph"
    /\ last.name = "ph_insert" /\ last.ret = TRUE
    /\ ht.entries = 2
    /\ TombstoneSlots(ht) # {}

\* C2: in a probing table no key is stored in two different slots of keys.
C2_NoDuplicateKey ==
    variant = "ph" =>
        \A i \in DOMAIN ht.keys : \A j \in DOMAIN ht.keys :
            (IsKey(ht.keys[i]) /\ ht.keys[i] = ht.keys[j]) => i = j

\* An insert of a stored key whose first probe stopped at a tombstone that
\* lies before the slot of the key.
C2_Witness ==
    /\ variant = "ph"
    /\ last.name = "ph_insert" /\ last.ret = TRUE
    /\ PhPresent(pre, last.key)
    /\ LET first == probe(pre.keys, last.key, pre.hash[last.key], FALSE)
       IN  first # Undefined /\ pre.keys[first] = Null

C4_DeleteThenReinsert ==
    /\ (variant = "ph" /\ last.name = "ph_delete" /\ PhPresent(pre, last.key)) =>
          /\ ph_lookup(ht, last.key) = Undefined
          /\ \A v2 \in Vals :
                LET r == ph_insert(ht, last.key, v2)
                IN  r.ret = TRUE /\ ph_lookup(r.ht, last.key) = v2
    /\ (variant = "ch" /\ last.name = "ch_delete" /\ ChPresent(pre, last.key)) =>
          /\ ch_lookup(ct, last.key) = Undefined
          /\ \A v2 \in Vals :
                LET r == ch_insert(ct, last.key, v2)
                IN  ch_lookup(r.ct, last.key) = v2

\* A key has just been deleted from a probing table that was full.
C4_Witness ==
    /\ variant = "ph"
    /\ last.name = "ph_delete" /\ PhPresent(pre, last.key)
    /\ Length(pre.keys) >= 2 /\ pre.entries = Length(pre.keys)

\* C5: ph_insert(k, v) returns false if and only if k is not stored and
\* entries = capacity; overwriting a stored key leaves entries unchanged.
C5_InsertFailsIffFull ==
    (variant = "ph" /\ last.name = "ph_insert") =>
        /\ (last.ret = FALSE) <=>
              (~PhPresent(pre, last.key) /\ pre.entries = Length(pre.keys))
        /\ PhPresent(pre, last.key) => ht.entries = pre.entries

\* A new key went into a table that had no unused slot left, only tombstones.
C5_Witness ==
    /\ variant = "ph"
    /\ last.name = "ph_insert" /\ last.ret = TRUE
    /\ ~PhPresent(pre, last.key)
    /\ EmptySlots(pre) = {}
    /\ Cardinality(TombstoneSlots(pre)) >= 2

\* C6: without deletions, each insert of a further distinct key into a table
\* that is not full returns true and counts it, so c inserts fill a table of
\* capacity c; the insert of one more distinct key returns false and leaves
\* keys, values and entries as they were, every key still looking up to its value.
C6_FillThenReject ==
    /\ (variant = "ph" /\ TombstoneSlots(ht) = {}) =>
          ht.entries = Cardinality({k \in Keys : PhPresent(ht, k)})
    /\ (variant = "ph" /\ last.name = "ph_insert"
            /\ TombstoneSlots(pre) = {} /\ ~PhPresent(pre, last.key)) =>
          IF pre.entries < Length(pre.keys)
          THEN last.ret = TRUE /\ ht.entries = pre.entries + 1
          ELSE /\ last.ret = FALSE
               /\ ht = pre
               /\ \A i \in DOMAIN ht.keys :
                     ht.values[i] \in Vals /\ ph_lookup(ht, ht.keys[i]) = ht.values[i]

\* One more distinct key was offered to a table filled without deletions.
C6_Witness ==
    /\ variant = "ph"
    /\ last.name = "ph_insert" /\ last.ret = FALSE
    /\ TombstoneSlots(pre) = {}
    /\ Length(pre.keys) >= 2

C8_KeysAreLiveKeys ==
    /\ variant = "ph" =>
          LET ks == ph_keys(ht)
          IN  /\ \A i \in 1..Len(ks) : \A j \in 1..Len(ks) : ks[i] = ks[j] => i = j
              /\ Range(ks) = {k \in Keys : ph_lookup(ht, k) # Undefined}
              /\ last.name = "ph_keys" => last.ret = ks
    /\ variant = "ch" =>
          LET ks == ch_keys(ct)
          IN  /\ \A i \in 1..Len(ks) : \A j \in 1..Len(ks) : ks[i] = ks[j] => i = j
              /\ Range(ks) = {k \in Keys : ch_lookup(ct, k) # Undefined}
              /\ last.name = "ch_keys" => last.ret = ks

\* ph_keys was called on a table with a stored key, a tombstone and an unused slot.
C8_Witness ==
    /\ variant = "ph"
    /\ last.name = "ph_keys" /\ Len(last.ret) >= 1
    /\ TombstoneSlots(ht) # {} /\ EmptySlots(ht) # {}

\* C9: when k is present with value v, ph_delete(k) returns v, makes the slot
\* of k a tombstone with its value undefined, counts entries down by one and
\* changes no other slot.
C9_DeleteFrame ==
    (variant = "ph" /\ last.name = "ph_delete" /\ PhPresent(pre, last.key)) =>
        LET slot == CHOOSE i \in DOMAIN pre.keys : pre.keys[i] = last.key
        IN  /\ last.ret \in Vals
            /\ last.ret = pre.values[slot]
            /\ ht.keys = [pre.keys EXCEPT ![slot] = Null]
            /\ ht.values = [pre.values EXCEPT ![slot] = Undefined]
            /\ ht.entries = pre.entries - 1
            /\ ht.hash = pre.hash

\* A key was deleted whose probe sequence passes a tombstone before its slot.
C9_Witness ==
    /\ variant = "ph"
    /\ last.name = "ph_delete" /\ PhPresent(pre, last.key)
    /\ LET first == probe(pre.keys, last.key, pre.hash[last.key], FALSE)
       IN  first # Undefined /\ pre.keys[first] = Null
    /\ pre.entries >= 2

\* C10: ch_insert(k, v) returns true iff k was present before the call, and
\* ch_delete(k) returns true iff k was present before the call.
C10_ChainingReturns ==
    (variant = "ch" /\ last.name \in {"ch_insert", "ch_delete"}) =>
        (last.ret = TRUE <=> ChPresent(pre, last.key))

\* ch_delete returned true for a key that was not the first pair of its bucket.
C10_Witness ==
    /\ variant = "ch"
    /\ last.name = "ch_delete" /\ last.ret = TRUE
    /\ \E i \in DOMAIN pre.arr :
          Len(pre.arr[i]) >= 2 /\ pre.arr[i][2][1] = last.key

\* C11: in a chaining table no bucket holds two pairs with the same key and
\* no key occurs in two buckets.
C11_ChainingNoDuplicateKey ==
    variant = "ch" =>
        \A i \in DOMAIN ct.arr : \A j \in DOMAIN ct.arr :
            \A p \in 1..Len(ct.arr[i]) : \A q \in 1..Len(ct.arr[j]) :
                ct.arr[i][p][1] = ct.arr[j][q][1] => (i = j /\ p = q)

\* ch_insert gave a new value to a key that was not the first pair of its bucket.
C11_Witness ==
    /\ variant = "ch"
    /\ last.name = "ch_insert" /\ last.ret = TRUE
    /\ \E i \in DOMAIN pre.arr :
          /\ Len(pre.arr[i]) >= 2
          /\ pre.arr[i][2][1] = last.key
          /\ pre.arr[i][2][2] # last.val

\* C12: in a chaining table of capacity >= 1 every pair of buckets[i] has
\* mod(hash(key), capacity) = i, mod gives a value in [0, capacity) also for a
\* negative hash, and a key with a negative hash is found in its bucket.
C12_BucketIndex ==
    variant = "ch" =>
        /\ \A k \in Keys :
              /\ mod(ct.hash[k], Length(ct.arr)) \in 0..(Length(ct.arr) - 1)
              /\ mod(ct.hash[k], Length(ct.arr)) = ct.hash[k] % Length(ct.arr)
        /\ \A i \in DOMAIN ct.arr : \A p \in 1..Len(ct.arr[i]) :
              /\ ct.hash[ct.arr[i][p][1]] % Length(ct.arr) = i
              /\ ch_lookup(ct, ct.arr[i][p][1]) = ct.arr[i][p][2]

\* ch_lookup found a key whose hash is negative, in a table of several buckets.
C12_Witness ==
    /\ variant = "ch"
    /\ last.name = "ch_lookup" /\ last.ret \in Vals
    /\ ct.hash[last.key] < 0
    /\ Length(ct.arr) >= 3

\* The record stored under id, read from the slot arrays.
RecordOf(id) == heap[ht.values[CHOOSE i \in DOMAIN ht.keys : ht.keys[i] = id]]
NoDup(arr) == \A i \in 1..Len(arr) : \A j \in 1..Len(arr) : arr[i] = arr[j] => i = j

\* C13: toHashtable(people, relations), with ids >= 0 and relations between
\* ids of people: every ph_insert it issues returns true; the table holds one
\* Person record per distinct id (entries = number of distinct ids, in as many
\* slots, each record a separate object carrying its id); on return, the
\* children of the record of p are exactly the c with a relation (p, c), each
\* once, and the parents of the record of c exactly the p, each once.
C13_ToHashtable ==
    variant = "family" =>
        /\ last.name = "ph_insert" => last.ret = TRUE
        /\ ht.entries = Cardinality(inPeople)
        /\ Cardinality(OccupiedSlots(ht)) = Cardinality(inPeople)
        /\ TombstoneSlots(ht) = {}
        /\ \A id \in Keys : id \in inPeople <=> PhPresent(ht, id)
        /\ \A i \in OccupiedSlots(ht) :
              /\ ht.values[i] \in DOMAIN heap
              /\ heap[ht.values[i]].id = ht.keys[i]
              /\ \A j \in OccupiedSlots(ht) : ht.values[i] = ht.values[j] => i = j
        /\ tpc = "built" =>
              \A id \in inPeople :
                  /\ Range(RecordOf(id).children) = {c \in Keys : <<id, c>> \in inRelations}
                  /\ NoDup(RecordOf(id).children)
                  /\ Range(RecordOf(id).parents) = {p \in Keys : <<p, id>> \in inRelations}
                  /\ NoDup(RecordOf(id).parents)

\* toHashtable returned a table built from a list that names a person twice,
\* with a person who is their own parent and a person with two children.
C13_Witness ==
    /\ variant = "family" /\ tpc = "built"
    /\ last.name = "ph_insert" /\ last.ret = TRUE
    /\ Cardinality(inPeople) >= 2
    /\ Cardinality(inPeople) < Length(ht.keys)
    /\ \E id \in inPeople : <<id, id>> \in inRelations
    /\ \E id \in inPeople : Len(RecordOf(id).children) >= 2

\* The ids in the children of the record of x; none if x has no record.
ChildIds(x) == IF PhPresent(ht, x) THEN Range(RecordOf(x).children) ELSE {}

RECURSIVE Closure(_)
Closure(S) ==
    LET more == S \cup UNION {ChildIds(x) : x \in S}
    IN  IF more = S THEN S ELSE Closure(more)

\* The ids reachable from id by one or more children links.
Reachable(id) == Closure(ChildIds(id))

\* What holds of every call of descendants that has returned: undefined is
\* returned exactly for an id without a record, and an array holds exactly the
\* reachable ids, each once. A run left aside had a cycle to follow.
DescendantsReturnedExact ==
    variant = "family" =>
        /\ dpc = "undefined" => ~PhPresent(ht, query)
        /\ dpc \in {"loop", "array", "overflow"} => PhPresent(ht, query)
        /\ dpc = "array" => Range(result) = Reachable(query) /\ NoDup(result)
        /\ dpc = "overflow" => \E x \in Reachable(query) : x \in Reachable(x)

\* C14: descendants(ht, id) on a table built by toHashtable returns undefined
\* if id has no record; otherwise it returns an array that holds exactly the
\* ids reachable from id by one or more children links, each once: what it
\* returns is exact, and a call that entered the loop comes to return.
C14_ReturnsExactlyReachable ==
    /\ []DescendantsReturnedExact
    /\ (variant = "family" /\ dpc = "loop") ~> (dpc \in {"array", "overflow"})

\* C20: descendants(ht, id) terminates on every table built by toHashtable,
\* also when a person is their own parent or the children links form a cycle:
\* a call that entered the loop leaves it.
C20_DescendantsTerminates ==
    \A id \in Keys : (variant = "family" /\ dpc = "loop" /\ query = id) ~> (dpc # "loop")

\* The slot at which the first probe of ph_insert (tombstones not skipped) stops.
FirstProbe(t, key) == probe(t.keys, key, t.hash[key], FALSE)

\* C15: when ph_insert(k, v) is called for a key that is stored nowhere and
\* its first probe stops at a tombstone t, the key is written into slot t,
\* also when an unused slot lies further along the probe sequence.
C15_NewKeyReusesTombstone ==
    (variant = "ph" /\ last.name = "ph_insert" /\ ~PhPresent(pre, last.key)
        /\ FirstProbe(pre, last.key) # Undefined
        /\ pre.keys[FirstProbe(pre, last.key)] = Null) =>
        ht.keys[FirstProbe(pre, last.key)] = last.key

\* C16: ph_insert (accepted or rejected) and ph_delete on a key k leave the
\* result of lookup(k') as it was for every other key k'.
C16_OtherLookupsUnchanged ==
    (variant = "ph" /\ last.name \in {"ph_insert", "ph_delete"}) =>
        \A k \in Keys \ {last.key} : ph_lookup(ht, k) = ph_lookup(pre, k)

\* A key was deleted that lies on the probe sequence of another stored key,
\* before the slot of that key.
C16_Witness ==
    /\ variant = "ph"
    /\ last.name = "ph_delete" /\ PhPresent(pre, last.key)
    /\ \E k \in Keys \ {last.key} :
          /\ PhPresent(ht, k)
          /\ FirstProbe(pre, k) # Undefined /\ pre.keys[FirstProbe(pre, k)] = k
          /\ FirstProbe(ht, k) # Undefined /\ ht.keys[FirstProbe(ht, k)] = Null

\* C17: a call changes a slot only from unused to occupied (insert), from
\* occupied to occupied by the same key (overwrite), from occupied to
\* tombstone (delete) or from tombstone to occupied (insert); the arrays keep
\* their length.
C17_SlotTransitions ==
    variant = "ph" =>
        /\ DOMAIN ht.keys = DOMAIN pre.keys
        /\ DOMAIN ht.values = DOMAIN pre.values
        /\ DOMAIN ht.values = DOMAIN ht.keys
        /\ \A i \in DOMAIN pre.keys :
              LET a == pre.keys[i]
                  b == ht.keys[i]
              IN  \/ a = b /\ ht.values[i] = pre.values[i]
                  \/ /\ IsKey(a) /\ b = a
                     /\ last.name = "ph_insert" /\ last.key = a /\ ht.values[i] = last.val
                  \/ /\ a = Undefined /\ IsKey(b)
                     /\ last.name = "ph_insert" /\ last.key = b /\ ht.values[i] = last.val
                  \/ /\ a = Null /\ IsKey(b)
                     /\ last.name = "ph_insert" /\ last.key = b /\ ht.values[i] = last.val
                  \/ /\ IsKey(a) /\ b = Null
                     /\ last.name = "ph_delete" /\ last.key = a /\ ht.values[i] = Undefined

\* An insert turned a tombstone into an occupied slot.
C17_Witness ==
    /\ variant = "ph"
    /\ last.name = "ph_insert"
    /\ \E i \in DOMAIN pre.keys : pre.keys[i] = Null /\ ht.keys[i] = last.key

\* The number of slots the last call inspected in its probes.
PhInspected ==
    IF last.name = "ph_insert"
    THEN ph_insert_inspected(pre, last.key)
    ELSE ph_lookup_inspected(pre, last.key)

\* C18 as stated: every probing-table operation returns after inspecting at
\* most capacity slots.
C18_AtMostCapacitySlots ==
    (variant = "ph" /\ last.name \in {"ph_lookup", "ph_insert", "ph_delete"}) =>
        PhInspected <= Length(pre.keys)

\* C18 as amended: every probe inspects at most capacity slots, so ph_lookup
\* and ph_delete return after at most capacity inspected slots and ph_insert,
\* which probes once more when its first probe stops at a tombstone, after at
\* most 2 * capacity.
C18_InspectionBound ==
    (variant = "ph" /\ last.name \in {"ph_lookup", "ph_insert", "ph_delete"}) =>
        /\ \A skip_null \in BOOLEAN : \A start \in 0..Length(pre.keys) :
              probeCount(pre.keys, last.key, start, skip_null, 0) <= Length(pre.keys)
        /\ \A skip_null \in BOOLEAN :
              LET start == pre.hash[last.key]
                  n == probeCount(pre.keys, last.key, start, skip_null, 0)
                  idx == probe(pre.keys, last.key, start, skip_null)
              IN  IF idx = Undefined
                  THEN n = Length(pre.keys)
                  ELSE n >= 1 /\ idx = (start + n - 1) % Length(pre.keys)
        /\ last.name \in {"ph_lookup", "ph_delete"} => PhInspected <= Length(pre.keys)
        /\ last.name = "ph_insert" => PhInspected <= 2 * Length(pre.keys)

\* ph_insert on a table without an unused slot inspected every slot twice.
C18_Witness ==
    /\ variant = "ph"
    /\ last.name = "ph_insert"
    /\ Length(pre.keys) >= 2
    /\ EmptySlots(pre) = {}
    /\ PhInspected = 2 * Length(pre.keys)

\* C19: ch_insert of a new key puts the pair in front of its bucket, ch_insert
\* of a present key replaces the value of its pair in place, ch_delete takes
\* out the pair of the key only, the order of the other pairs and all other
\* buckets stay as they were; ch_keys lists the buckets in index order, a
\* newly inserted key first in its bucket.
C19_ChainingFrame ==
    (variant = "ch" /\ last.name \in {"ch_insert", "ch_delete"}) =>
        LET k == last.key
            bucket(x) == ct.hash[x] % Length(ct.arr)
            old == pre.arr[bucket(k)]
            new == ct.arr[bucket(k)]
            has == \E p \in 1..Len(old) : old[p][1] = k
            ks == ch_keys(ct)
        IN  /\ DOMAIN ct.arr = DOMAIN pre.arr
            /\ \A j \in DOMAIN pre.arr \ {bucket(k)} : ct.arr[j] = pre.arr[j]
            /\ (last.name = "ch_insert" /\ ~has) =>
                  /\ new = <<(<<k, last.val>>)>> \o old
                  /\ \A p \in 1..Len(ks) :
                        ks[p] = k => (p = 1 \/ bucket(ks[p - 1]) < bucket(k))
            /\ (last.name = "ch_insert" /\ has) =>
                  /\ Len(new) = Len(old)
                  /\ \A p \in 1..Len(old) :
                        new[p] = IF old[p][1] = k THEN <<k, last.val>> ELSE old[p]
            /\ (last.name = "ch_delete" /\ has) =>
                  \E p \in 1..Len(old) :
                      /\ old[p][1] = k
                      /\ new = SubSeq(old, 1, p - 1) \o SubSeq(old, p + 1, Len(old))
            /\ (last.name = "ch_delete" /\ ~has) => new = old
            /\ \A p \in 1..Len(ks) : \A q \in 1..Len(ks) :
                  p < q => bucket(ks[p]) <= bucket(ks[q])

\* A new key went into a bucket that held a pair, in a table with another
\* bucket that holds a pair.
C19_Witness ==
    /\ variant = "ch"
    /\ last.name = "ch_insert" /\ last.ret = FALSE
    /\ \E i \in DOMAIN pre.arr : \E j \in DOMAIN pre.arr :
          /\ i # j /\ pre.arr[i] # <<>> /\ pre.arr[j] # <<>>
          /\ ct.arr[i] # pre.arr[i]

\* C21: a chaining and a probing table with the same capacity >= 1 and the
\* same hash function >= 0, given the same calls while the number of present
\* keys stays within the capacity, agree after every call: lookup(k) gives the
\* same on both for every key k, keys() returns the same set of keys, each
\* once, and no ph_insert was rejected; the lookup and the keys call issued
\* last returned the same on both.
C21_TablesAgree ==
    variant = "both" =>
        /\ \A k \in Keys : ph_lookup(ht, k) = ch_lookup(ct, k)
        /\ Range(ph_keys(ht)) = Range(ch_keys(ct))
        /\ Len(ph_keys(ht)) = Len(ch_keys(ct))
        /\ Range(ph_keys(ht)) = {k \in Keys : ch_lookup(ct, k) # Undefined}
        /\ last.name = "insert" => last.ret.ph = TRUE
        /\ last.name = "lookup" => last.ret.ph = last.ret.ch
        /\ last.name = "keys" => Range(last.ret.ph) = Range(last.ret.ch)

\* Both tables hold two keys and the probing table holds a tombstone, and
\* the two keys() lists are in a different order; the last call was a lookup
\* that found a value.
C21_Witness ==
    /\ variant = "both"
    /\ last.name = "lookup" /\ last.ret.ch \in Vals
    /\ Len(ch_keys(ct)) >= 2
    /\ TombstoneSlots(ht) # {}
    /\ ph_keys(ht) # ch_keys(ct)

====
